---- MODULE Spec2Model ----
(***************************************************************************)
(* A model of clang/utils/Intel/gen_assume.py: the tool that inserts       *)
(* __builtin_assume(__builtin_has_cpu_feature(...)) into the intrinsic     *)
(* headers.                                                                *)
(*                                                                         *)
(* Text is a sequence of tokens.  A token stands for a fixed piece of      *)
(* text: "SI" is `static __inline`, "DEF" is `#define`, "INC" is           *)
(* `#include <__x86intrin_features.h>`, "SP" a blank, "NL" a line break,   *)
(* "BS" a backslash, "x" any other character, "_a", "_b" identifiers that  *)
(* begin with an underscore.  A file is the token sequence of its bytes;   *)
(* lines exist only through readline.                                      *)
(***************************************************************************)
EXTENDS Integers, Sequences, FiniteSets, TLC

VARIABLES
  xml,            \* the XML description file given on the command line
  full,           \* dir/<file>      : [exists, data] per configured file
  temp,           \* dir/<file>.tmp  : [exists, data] per configured file
  run,            \* number of the current invocation of the tool
  status,         \* "running" | "aborted" (uncaught exception) | "stopped" (killed) | "done"
  err,            \* the exception that aborted the invocation
  pc,             \* position of the running invocation in main()
  cur,            \* index into filelist of the file being processed
  intrinsicTech,  \* module-level dict name -> feature (FeatureMap)
  allIntrinsics,  \* module-level Set of names (PendingNameSet)
  line,           \* the local `line`
  inPos,          \* number of tokens of inFile already read
  stripped,       \* handleFunction's local `stripped`
  tech,           \* the handlers' local `tech`
  input,          \* history: the content of the headers before the first invocation
  orig,           \* history: content of each file when this invocation renamed it aside
  snap,           \* history: the headers at the end of the first completed invocation
  touched,        \* history: this invocation has performed a file operation on a header
  matchedIn,      \* history: per name, the file in which a declaration of it was first matched (0: none)
  unfinished      \* history: per file, what it held when an invocation that ended while rewriting it renamed it aside

vars == <<xml, full, temp, run, status, err, pc, cur, intrinsicTech, allIntrinsics,
          line, inPos, stripped, tech, input, orig, snap, touched, matchedIn,
          unfinished>>

-----------------------------------------------------------------------------
(* Bounds of the model *)

MaxPieces == 2     \* pieces of text the headers are made of, over all headers (Spec)
MaxLen == 3        \* lines of the header under study (SpecOne)
MaxRuns == 2       \* invocations of the tool on the same directory
MaxElems == 2      \* intrinsic elements of the XML description (SpecXml)

\* the configured headers; the source lists 27 names, the model keeps two
filelist == <<"adxintrin.h", "avx2intrin.h">>

NumFiles == Len(filelist)

Files == 1..NumFiles

-----------------------------------------------------------------------------
(* Strings *)

Whitespace == {"SP", "NL"}

\* tokens whose text begins with the character `_`
UnderscoreTokens ==
  {"_a", "_b", "__builtin_assume", "__builtin_has_cpu_feature"}
    \cup {"_FEATURE_" \o t : t \in {"AVX", "BMI", "SSE4_1", "GENERIC_IA32"}}

Min(S) == CHOOSE m \in S : \A n \in S : m <= n

RECURSIVE lstrip(_)
lstrip(s) == IF s # <<>> /\ Head(s) \in Whitespace THEN lstrip(Tail(s)) ELSE s

RECURSIVE rstrip(_)
rstrip(s) ==
  IF s # <<>> /\ s[Len(s)] \in Whitespace THEN rstrip(SubSeq(s, 1, Len(s) - 1)) ELSE s

strip(s) == rstrip(lstrip(s))

endswith(s, t) == s # <<>> /\ s[Len(s)] = t

startswith(s, t) == s # <<>> /\ s[1] = t

\* file.readline(): the tokens after position pos up to and including the next
\* line break, or the rest of the file; empty at end of file
LineEnd(data, pos) ==
  LET nl == {i \in (pos + 1)..Len(data) : data[i] = "NL"}
  IN  IF nl = {} THEN Len(data) ELSE Min(nl)

readline(data, pos) == SubSeq(data, pos + 1, LineEnd(data, pos))

includeString == <<"INC", "NL">>

NoMatch == [matched |-> FALSE]

\* funcRegEx = ^(_.*?)\s*\(.*$  : group 1 is the text before the first `(`,
\* without the blanks in front of that `(`
funcRegEx(s) ==
  LET parens == {i \in 1..Len(s) : s[i] = "("}
  IN  IF s = <<>> \/ s[1] \notin UnderscoreTokens \/ parens = {}
      THEN NoMatch
      ELSE [matched |-> TRUE, g1 |-> rstrip(SubSeq(s, 1, Min(parens) - 1))]

\* index of the first token after `#define\s+`, 0 if the line does not start so
AfterDefine(s) ==
  IF Len(s) < 2 \/ s[1] # "DEF" \/ s[2] \notin Whitespace THEN 0
  ELSE LET rest == {i \in 2..Len(s) : s[i] \notin Whitespace}
       IN  IF rest = {} THEN 0 ELSE Min(rest)

\* macroRegEx = ^(#define\s+)(_.*?)(\(.*?\))([^\\]*)(\\?)
macroRegEx(s) ==
  LET n0 == AfterDefine(s)
      opens == {i \in (n0 + 1)..Len(s) : s[i] = "("}
      p == Min(opens)
      closes == {i \in (p + 1)..Len(s) : s[i] = ")"}
      q == Min(closes)
      slashes == {i \in (q + 1)..Len(s) : s[i] = "BS"}
      e == IF slashes = {} THEN Len(s) + 1 ELSE Min(slashes)
  IN  IF n0 = 0 \/ s[n0] \notin UnderscoreTokens THEN NoMatch
      ELSE IF opens = {} THEN NoMatch
      ELSE IF closes = {} THEN NoMatch
      ELSE [matched |-> TRUE,
            g1 |-> SubSeq(s, 1, n0 - 1),
            g2 |-> SubSeq(s, n0, p - 1),
            g3 |-> SubSeq(s, p, q),
            g4 |-> SubSeq(s, q + 1, e - 1),
            g5 |-> IF slashes = {} THEN <<>> ELSE <<"BS">>]

\* simpleMacroRegEx = ^#define\s+(_.*?)\s
simpleMacroRegEx(s) ==
  LET n0 == AfterDefine(s)
      blanks == {i \in (n0 + 1)..Len(s) : s[i] \in Whitespace}
  IN  IF n0 = 0 \/ s[n0] \notin UnderscoreTokens THEN NoMatch
      ELSE IF blanks = {} THEN NoMatch
      ELSE [matched |-> TRUE, g1 |-> SubSeq(s, n0, Min(blanks) - 1)]

\* None, the value of dict.get for a missing key
None == ""

\* dict.get(name), name being the token sequence a group matched
Get(dict, name) ==
  IF Len(name) = 1 /\ name[1] \in DOMAIN dict THEN dict[name[1]] ELSE None

\* name in set, for Set.remove and Set.discard
Member(name, set) == Len(name) = 1 /\ name[1] \in set

\* '  __builtin_assume(__builtin_has_cpu_feature(_FEATURE_%s));\n' % tech
FunctionAssume(t) ==
  <<"SP", "SP", "__builtin_assume", "(", "__builtin_has_cpu_feature", "(",
    "_FEATURE_" \o t, ")", ")", ";", "NL">>

\* ' \\\n  (__builtin_assume(__builtin_has_cpu_feature(_FEATURE_%s)), \\\n' % tech
MacroAssume(t) ==
  <<"SP", "BS", "NL",
    "SP", "SP", "(", "__builtin_assume", "(", "__builtin_has_cpu_feature", "(",
    "_FEATURE_" \o t, ")", ")", ",", "SP", "BS", "NL">>

-----------------------------------------------------------------------------
(* The XML description and parseDataXML *)

XMLToFeature ==
  [id \in {"BMI1", "BMI2", "FP16C", "RDRAND", "SSE4.1", "SSE4.2",
           "PREFETCHWT1", "TSC", "FSGSBASE", "MONITOR", "RDTSCP"} |->
     CASE id \in {"BMI1", "BMI2"} -> "BMI"
       [] id = "FP16C" -> "F16C"
       [] id = "RDRAND" -> "RDRND"
       [] id = "SSE4.1" -> "SSE4_1"
       [] id = "SSE4.2" -> "SSE4_2"
       [] OTHER -> "GENERIC_IA32"]

\* XMLToFeature.get(id, id)
Alias(id) == IF id \in DOMAIN XMLToFeature THEN XMLToFeature[id] ELSE id

\* `sub in tech`, tech being the token sequence of the attribute's text
Contains(t, sub) == \E i \in 1..Len(t) : t[i] = sub

\* elem.get("tech") of an element without that attribute: None
NoAttr == <<"None">>

\* line 107: `"512" in tech` raises TypeError when ID is not None and tech is None
Raises(elem) == elem.ids # <<>> /\ elem.tech = NoAttr

AcceptedKeepsSvml(elem) ==               \* the SVML test is missing
  /\ elem.ids # <<>>
  /\ ~Contains(elem.tech, "512")
  /\ ~Contains(elem.tech, "KNC")
  /\ elem.ids[1] \notin {"MPX", "XSAVE", "FXSR"}

\* the condition of lines 107-108; ids are the texts of the element's CPUID children
Accepted(elem) ==
  /\ elem.ids # <<>>
  /\ ~Contains(elem.tech, "512")
  /\ ~Contains(elem.tech, "KNC")
  /\ ~Contains(elem.tech, "SVML")
  /\ elem.ids[1] \notin {"MPX", "XSAVE", "FXSR"}

Put(dict, k, v) == [n \in DOMAIN dict \cup {k} |-> IF n = k THEN v ELSE dict[n]]

EmptyDict == [n \in {} |-> ""]

\* the loop of parseDataXML over root.findall("intrinsic"), up to the element
\* that raises if there is one
RECURSIVE parseElems(_, _, _)
parseElems(elems, dict, set) ==
  IF elems = <<>> THEN [dict |-> dict, set |-> set, raised |-> FALSE]
  ELSE LET elem == Head(elems)
       IN  IF Raises(elem) THEN [dict |-> dict, set |-> set, raised |-> TRUE]
           ELSE IF Accepted(elem)
           THEN parseElems(Tail(elems), Put(dict, elem.name, Alias(elem.ids[1])),
                           set \cup {elem.name})
           ELSE parseElems(Tail(elems), dict, set)

Malformed == [wellformed |-> FALSE, elems |-> <<>>]

\* _a is a BMI1 intrinsic; _b has only an AVX-512 form and is filtered out
Doc ==
  [wellformed |-> TRUE,
   elems |-> << [name |-> "_a", tech |-> <<"BMI">>, ids |-> <<"BMI1">>],
                [name |-> "_b", tech |-> <<"AVX-", "512">>, ids |-> <<"AVX512F">>] >>]

\* ET.parse(xmlfile) raises on a missing, unreadable or malformed file
ParseSucceeds(x) == x.wellformed

-----------------------------------------------------------------------------
(* Input headers *)

LnMarker == <<"SI", "SP", "x", "NL">>                           \* static __inline x
LnProtoA == <<"_a", "(", ")", "SP", "{", "NL">>                 \* _a() {
LnMacroA == <<"DEF", "SP", "_a", "(", ")", "SP", "x", "NL">>    \* #define _a() x
LnSimpleA == <<"DEF", "SP", "_a", "SP", "_b", "NL">>            \* #define _a _b
LnPlain == <<"x", "NL">>
LnProtoOnly == <<"_a", "(", ")", "NL">>                         \* _a()
LnBrace == <<"{", "NL">>
LnMacroCont == <<"DEF", "SP", "_a", "(", ")", "SP", "x", "SP", "BS", "NL">>  \* #define _a() x \
LnCont == <<"x", "SP", "BS", "NL">>                             \* x \
LnProtoB == <<"_b", "(", ")", "SP", "{", "NL">>                 \* _b() {
LnMacroB == <<"DEF", "SP", "_b", "(", ")", "SP", "x", "NL">>    \* #define _b() x
LnMacroBCont == <<"DEF", "SP", "_b", "(", ")", "SP", "x", "SP", "BS", "NL">>
LnMacroQ == <<"DEF", "SP", "_a", "(", ")", "SP", "x", "BS", "x", "NL">>      \* #define _a() x\x
LnTrail == <<"x", "SP", "NL">>                                  \* trailing blank
LnNoEol == <<"x">>                                              \* no line break

CoreLines ==
  {LnMarker, LnProtoA, LnProtoOnly, LnBrace, LnMacroA, LnMacroCont, LnCont,
   LnSimpleA, LnPlain, includeString}

\* the text the headers of Spec are made of: whole declarations and single lines
CorePieces ==
  {LnMarker \o LnProtoA, LnMarker \o LnProtoOnly \o LnBrace, LnMacroA,
   LnMacroCont \o LnCont \o LnPlain, LnSimpleA, LnPlain, includeString,
   LnMarker \o LnProtoB, LnMacroB, <<"INC">>}

RichLines ==
  CoreLines \cup {LnProtoB, LnMacroB, LnMacroBCont, LnMacroQ, LnTrail, LnNoEol}

SeqsUpTo(S, n) == UNION {[1..k -> S] : k \in 0..n}

RECURSIVE Concat(_)
Concat(ls) == IF ls = <<>> THEN <<>> ELSE Head(ls) \o Concat(Tail(ls))

File(data) == [exists |-> TRUE, data |-> data]
NoFile == [exists |-> FALSE, data |-> <<>>]

NoSnap == [f \in {} |-> NoFile]

\* the state before the first invocation, the headers being `headers`
Start(x, headers) ==
  /\ xml = x
  /\ full = [f \in Files |-> File(headers[f])]
  /\ temp = [f \in Files |-> NoFile]
  /\ input = headers
  /\ run = 1
  /\ status = "running"
  /\ err = "none"
  /\ pc = "start"
  /\ cur = 1
  /\ intrinsicTech = EmptyDict
  /\ allIntrinsics = {}
  /\ line = <<>>
  /\ inPos = 0
  /\ stripped = <<>>
  /\ tech = ""
  /\ orig = [f \in Files |-> <<>>]
  /\ snap = NoSnap
  /\ touched = FALSE
  /\ matchedIn = [n \in {"_a", "_b"} |-> 0]
  /\ unfinished = [f \in Files |-> NoFile]

\* the pieces `all` dealt to the files in order, file f getting those after cut f-1
Deal(all, cuts) ==
  [f \in Files |->
     Concat(SubSeq(all, (IF f = 1 THEN 0 ELSE cuts[f - 1]) + 1,
                        IF f = NumFiles THEN Len(all) ELSE cuts[f]))]

Init ==
  \E x \in {Malformed, Doc} :
    \E all \in SeqsUpTo(CorePieces, MaxPieces) :
      \E cuts \in [1..(NumFiles - 1) -> 0..Len(all)] :
        /\ \A f \in 1..(NumFiles - 2) : cuts[f] <= cuts[f + 1]
        /\ Start(x, Deal(all, cuts))

-----------------------------------------------------------------------------
(* main() *)

Running == status = "running"

Data == temp[cur].data              \* the text inFile reads

\* outFile.write(text)
Write(text) == full' = [full EXCEPT ![cur].data = @ \o text]

\* an uncaught exception leaves main(); the with blocks close the open files
Raise(e) ==
  /\ status' = "aborted"
  /\ err' = e

LoadOutcomeSwallowed(ok) == "returned"   \* the load's exception is caught and ignored

\* how the call of line 119 ends: ET.parse (line 101) raises on a missing,
\* unreadable or malformed file, line 107 on an element without tech, and
\* main() catches nothing
LoadOutcome(ok) == IF ok THEN "returned" ELSE "raised"

\* line 119: parseDataXML(args.descfile)
ParseDataXML ==
  /\ Running /\ pc = "start"
  /\ LET r == parseElems(xml.elems, intrinsicTech, allIntrinsics)
     IN  /\ intrinsicTech' = r.dict
         /\ allIntrinsics' = r.set
         /\ IF LoadOutcome(ParseSucceeds(xml) /\ ~r.raised) = "returned"
            THEN /\ pc' = "for"
                 /\ UNCHANGED <<status, err>>
            ELSE /\ Raise(IF ParseSucceeds(xml) THEN "TypeError" ELSE "ParseError")
                 /\ UNCHANGED pc
  /\ UNCHANGED <<xml, full, temp, run, cur, line, inPos, stripped, tech,
                 input, orig, snap, touched, matchedIn, unfinished>>

OpenInFileForWriting(data) == <<>>       \* mode "w" instead of "r"

\* open(tempName, "r"): what the file holds once it is open
OpenInFile(data) == data

\* lines 121-125: the next file of filelist is renamed aside and opened.
\* os.rename replaces an existing destination on POSIX and raises on Windows.
RenameAside ==
  /\ Running /\ pc = "for" /\ cur <= NumFiles
  /\ touched' = TRUE
  /\ \/ /\ full[cur].exists
        /\ full' = [full EXCEPT ![cur] = NoFile]
        /\ temp' = [temp EXCEPT ![cur] = File(OpenInFile(full[cur].data))]
        /\ orig' = [orig EXCEPT ![cur] = full[cur].data]
        /\ pc' = "opened"
        /\ UNCHANGED <<status, err>>
     \/ /\ ~full[cur].exists \/ temp[cur].exists
        /\ Raise("OSError")
        /\ UNCHANGED <<full, temp, orig, pc>>
  /\ UNCHANGED <<xml, run, cur, intrinsicTech, allIntrinsics, line, inPos,
                 stripped, tech, input, snap, matchedIn, unfinished>>

IsProcessedNoEol(l) == l = <<"INC">>     \* compares with the sentinel without its line break
IsProcessedNever(l) == FALSE             \* the check is missing

\* line 127: line == includeString
IsProcessed(l) == l = includeString

\* lines 126-131: the file has already been processed by a previous invocation
AlreadyProcessed ==
  /\ Running /\ pc = "opened"
  /\ IsProcessed(readline(Data, 0))
  /\ full' = [full EXCEPT ![cur] = temp[cur]]
  /\ temp' = [temp EXCEPT ![cur] = NoFile]
  /\ cur' = cur + 1
  /\ pc' = "for"
  /\ UNCHANGED <<xml, run, status, err, intrinsicTech, allIntrinsics, line, inPos,
                 stripped, tech, input, orig, snap, touched, matchedIn, unfinished>>

FirstOutputNothing == <<>>               \* the sentinel is not written

\* line 134: outFile.write(includeString)
FirstOutput == includeString

\* lines 126-134: the output file is created and the sentinel written
BeginRewrite ==
  /\ Running /\ pc = "opened"
  /\ ~IsProcessed(readline(Data, 0))
  /\ line' = readline(Data, 0)
  /\ inPos' = LineEnd(Data, 0)
  /\ full' = [full EXCEPT ![cur] = File(FirstOutput)]
  /\ pc' = "main"
  /\ UNCHANGED <<xml, temp, run, status, err, cur, intrinsicTech, allIntrinsics,
                 stripped, tech, input, orig, snap, touched, matchedIn, unfinished>>

\* line 143 after a handler has read up to position pos: line = inFile.readline()
NextLine(pos) ==
  /\ line' = readline(Data, pos)
  /\ inPos' = LineEnd(Data, pos)
  /\ pc' = "main"

\* line 136: if not line: break, which leaves both with blocks
EndOfInput ==
  /\ Running /\ pc = "main" /\ line = <<>>
  /\ pc' = "closed"
  /\ UNCHANGED <<xml, full, temp, run, status, err, cur, intrinsicTech, allIntrinsics,
                 line, inPos, stripped, tech, input, orig, snap, touched, matchedIn, unfinished>>

\* line 144: os.remove(tempName), and on to the next file
RemoveAside ==
  /\ Running /\ pc = "closed"
  /\ temp' = [temp EXCEPT ![cur] = NoFile]
  /\ cur' = cur + 1
  /\ pc' = "for"
  /\ UNCHANGED <<xml, full, run, status, err, intrinsicTech, allIntrinsics, line, inPos,
                 stripped, tech, input, orig, snap, touched, matchedIn, unfinished>>

ClassifyDirective(l) ==                  \* the macro test is startswith("#")
  IF startswith(l, "SI") THEN "FunctionStart"
  ELSE IF startswith(l, "DEF") \/ startswith(l, "INC") THEN "MacroStart"
  ELSE "Plain"

\* lines 138-142: what the loop of main() does with a line it has read
Classify(l) ==
  IF startswith(l, "SI") THEN "FunctionStart"
  ELSE IF startswith(l, "DEF") THEN "MacroStart"
  ELSE "Plain"

\* line 142: a line that starts neither a function nor a macro is copied
Plain ==
  /\ Running /\ pc = "main" /\ line # <<>>
  /\ Classify(line) = "Plain"
  /\ Write(line)
  /\ NextLine(inPos)
  /\ UNCHANGED <<xml, temp, run, status, err, cur, intrinsicTech, allIntrinsics,
                 stripped, tech, input, orig, snap, touched, matchedIn, unfinished>>

\* the end of the for loop: main() returns
Finish ==
  /\ Running /\ pc = "for" /\ cur > NumFiles
  /\ status' = "done"
  /\ snap' = IF snap = NoSnap /\ run = 1 THEN full ELSE snap
  /\ UNCHANGED <<xml, full, temp, run, err, pc, cur, intrinsicTech, allIntrinsics,
                 line, inPos, stripped, tech, input, orig, touched, matchedIn, unfinished>>

-----------------------------------------------------------------------------
(* handleFunction and handleMacro *)

RemovedKept(name) == allIntrinsics' = allIntrinsics     \* the name stays in the set

\* allIntrinsics.remove(name) / discard(name) of a name the set may hold
Removed(name) ==
  allIntrinsics' = IF Len(name) = 1 THEN allIntrinsics \ {name[1]} ELSE allIntrinsics

\* history: a declaration of `name` has been matched while file cur is processed
Matched(name) ==
  matchedIn' = IF Len(name) = 1 /\ name[1] \in DOMAIN matchedIn /\ matchedIn[name[1]] = 0
               THEN [matchedIn EXCEPT ![name[1]] = cur] ELSE matchedIn

\* lines 35-50: the marker line and the prototype line are copied, the name looked up
HandleFunction ==
  /\ Running /\ pc = "main" /\ line # <<>>
  /\ Classify(line) = "FunctionStart"
  /\ LET funcDecl == readline(Data, inPos)
         pos == LineEnd(Data, inPos)
         s == strip(funcDecl)
         match == funcRegEx(s)
         t == IF match.matched THEN Get(intrinsicTech, match.g1) ELSE None
     IN  /\ Write(line \o funcDecl)
         /\ IF t = None
            THEN /\ NextLine(pos)
                 /\ UNCHANGED <<status, err, allIntrinsics, matchedIn, stripped, tech>>
            ELSE IF ~Member(match.g1, allIntrinsics)
            THEN /\ Raise("KeyError")
                 /\ UNCHANGED <<pc, line, inPos, allIntrinsics, matchedIn, stripped, tech>>
            ELSE /\ Removed(match.g1)
                 /\ Matched(match.g1)
                 /\ stripped' = s
                 /\ tech' = t
                 /\ inPos' = pos
                 /\ pc' = "fwhile"
                 /\ UNCHANGED <<status, err, line>>
  /\ UNCHANGED <<xml, temp, run, cur, intrinsicTech, input, orig, snap, touched,
                 unfinished>>

\* lines 52-55: one more line is copied while no line has ended with `{`
FuncScan ==
  /\ Running /\ pc = "fwhile" /\ ~endswith(stripped, "{")
  /\ Write(readline(Data, inPos))
  /\ stripped' = strip(readline(Data, inPos))
  /\ inPos' = LineEnd(Data, inPos)
  /\ UNCHANGED <<xml, temp, run, status, err, pc, cur, intrinsicTech, allIntrinsics,
                 line, tech, input, orig, snap, touched, matchedIn, unfinished>>

\* line 56: the assumption is written after the line that ends with `{`
FuncEmit ==
  /\ Running /\ pc = "fwhile" /\ endswith(stripped, "{")
  /\ Write(FunctionAssume(tech))
  /\ NextLine(inPos)
  /\ UNCHANGED <<xml, temp, run, status, err, cur, intrinsicTech, allIntrinsics,
                 stripped, tech, input, orig, snap, touched, matchedIn, unfinished>>

\* the position after the last line of the macro whose first line ends at pos
RECURSIVE ReadToEndOfMacro(_)
ReadToEndOfMacro(pos) ==
  IF endswith(strip(readline(Data, pos)), "BS")
  THEN ReadToEndOfMacro(LineEnd(Data, pos)) ELSE LineEnd(Data, pos)

\* lines 70-75: for a name without a feature handleMacro returns at once, having
\* read nothing beyond the line it was given, which ends at pos
EarlyReturn(pos) == pos

\* lines 60-86: the first line of a macro
HandleMacro ==
  /\ Running /\ pc = "main" /\ line # <<>>
  /\ Classify(line) = "MacroStart"
  /\ LET s == strip(line)
         match == macroRegEx(s)
         simple == simpleMacroRegEx(s)
         t == IF match.matched THEN Get(intrinsicTech, match.g2) ELSE None
     IN  IF ~match.matched
         THEN /\ Write(line)
              /\ IF simple.matched THEN Removed(simple.g1) /\ Matched(simple.g1)
                                   ELSE UNCHANGED <<allIntrinsics, matchedIn>>
              /\ NextLine(inPos)
              /\ UNCHANGED <<status, err, tech>>
         ELSE IF t = None
         THEN /\ Write(line)
              /\ NextLine(EarlyReturn(inPos))
              /\ UNCHANGED <<status, err, tech, allIntrinsics, matchedIn>>
         ELSE IF ~Member(match.g2, allIntrinsics)
         THEN /\ Raise("KeyError")
              /\ UNCHANGED <<full, pc, line, inPos, tech, allIntrinsics, matchedIn>>
         ELSE /\ Removed(match.g2)
              /\ Matched(match.g2)
              /\ tech' = t
              /\ Write(match.g1 \o match.g2 \o match.g3 \o MacroAssume(t) \o match.g4
                       \o (IF match.g5 = <<>> THEN <<")", "NL">> ELSE <<"BS", "NL">>))
              /\ IF match.g5 = <<>>
                 THEN NextLine(inPos)
                 ELSE /\ pc' = "mwhile"
                      /\ UNCHANGED <<line, inPos>>
              /\ UNCHANGED <<status, err>>
  /\ UNCHANGED <<xml, temp, run, cur, intrinsicTech, stripped, input, orig, snap, touched,
                 unfinished>>

\* lines 89-92: a line that ends with a backslash is copied
MacroScan ==
  /\ Running /\ pc = "mwhile"
  /\ endswith(strip(readline(Data, inPos)), "BS")
  /\ Write(readline(Data, inPos))
  /\ inPos' = LineEnd(Data, inPos)
  /\ UNCHANGED <<xml, temp, run, status, err, pc, cur, intrinsicTech, allIntrinsics,
                 line, stripped, tech, input, orig, snap, touched, matchedIn, unfinished>>

\* lines 89-94: the first line that does not end with a backslash gets the `)`
MacroClose ==
  /\ Running /\ pc = "mwhile"
  /\ ~endswith(strip(readline(Data, inPos)), "BS")
  /\ Write(rstrip(readline(Data, inPos)) \o <<")", "NL">>)
  /\ NextLine(LineEnd(Data, inPos))
  /\ UNCHANGED <<xml, temp, run, status, err, cur, intrinsicTech, allIntrinsics,
                 stripped, tech, input, orig, snap, touched, matchedIn, unfinished>>

-----------------------------------------------------------------------------
(* The environment: the process is killed; the tool is invoked again *)

\* The process stops where it is.  What it wrote to outFile and did not flush
\* is lost: the header holds all of it or none of it.
Kill ==
  /\ Running
  /\ status' = "stopped"
  /\ IF pc \in {"main", "fwhile", "mwhile"}
     THEN \E kept \in {full[cur].data, <<>>} : full' = [full EXCEPT ![cur].data = kept]
     ELSE UNCHANGED full
  /\ UNCHANGED <<xml, temp, run, err, pc, cur, intrinsicTech, allIntrinsics, line, inPos,
                 stripped, tech, input, orig, snap, touched, matchedIn, unfinished>>

\* a new process on the same directory with the same description file
NewRun ==
  /\ ~Running /\ run < MaxRuns
  /\ run' = run + 1
  /\ status' = "running"
  /\ err' = "none"
  /\ pc' = "start"
  /\ cur' = 1
  /\ intrinsicTech' = EmptyDict
  /\ allIntrinsics' = {}
  /\ line' = <<>>
  /\ inPos' = 0
  /\ stripped' = <<>>
  /\ tech' = ""
  /\ orig' = [f \in Files |-> <<>>]
  /\ touched' = FALSE
  /\ matchedIn' = [n \in DOMAIN matchedIn |-> 0]
  /\ unfinished' = IF pc \in {"main", "fwhile", "mwhile"}
                   THEN [unfinished EXCEPT ![cur] = File(orig[cur])] ELSE unfinished
  /\ UNCHANGED <<xml, full, temp, input, snap>>

Step ==
  \/ ParseDataXML
  \/ RenameAside
  \/ AlreadyProcessed
  \/ BeginRewrite
  \/ EndOfInput
  \/ RemoveAside
  \/ Plain
  \/ HandleFunction
  \/ FuncScan
  \/ FuncEmit
  \/ HandleMacro
  \/ MacroScan
  \/ MacroClose
  \/ Finish

Next == Step \/ Kill \/ NewRun

Spec == Init /\ [][Next]_vars

\* One invocation that nothing interrupts, on one header drawn from the larger
\* set of lines; the other headers are empty.
InitOne ==
  \E ls \in SeqsUpTo(RichLines, MaxLen) :
    Start(Doc, [f \in Files |-> IF f = 1 THEN Concat(ls) ELSE <<>>])

SpecOne == InitOne /\ [][Step]_vars

\* The load alone, on a description of up to MaxElems intrinsic elements.
XmlNames == {"_a", "_b"}

XmlTechs == {<<"BMI">>, <<"AVX-", "512">>, <<"KNC">>, <<"SVML">>, NoAttr}

\* the texts of an element's CPUID children; "" is an empty CPUID element
XmlIds ==
  {<<>>, <<"BMI1">>, <<"SSE4.1">>, <<"AVX">>, <<"MPX">>, <<"XSAVE", "AVX">>,
   <<"AVX", "FXSR">>, <<"">>}

XmlElems == [name : XmlNames, tech : XmlTechs, ids : XmlIds]

InitXml ==
  \E es \in SeqsUpTo(XmlElems, MaxElems) :
    Start([wellformed |-> TRUE, elems |-> es], [f \in Files |-> <<>>])

SpecXml == InitXml /\ [][ParseDataXML]_vars

-----------------------------------------------------------------------------
(* Properties *)

RECURSIVE LinesFrom(_, _)
LinesFrom(data, pos) ==
  IF pos >= Len(data) THEN <<>>
  ELSE <<readline(data, pos)>> \o LinesFrom(data, LineEnd(data, pos))

\* the lines of a text, as readline delivers them
Lines(data) == LinesFrom(data, 0)

\* sub occurs in seq as a run of consecutive elements
Occurs(sub, seq) ==
  \E k \in 0..(Len(seq) - Len(sub)) : SubSeq(seq, k + 1, k + Len(sub)) = sub

RECURSIVE LeadingSentinels(_)
LeadingSentinels(data) ==
  IF readline(data, 0) = includeString
  THEN 1 + LeadingSentinels(SubSeq(data, 3, Len(data))) ELSE 0

Rewriting == pc \in {"main", "fwhile", "mwhile", "closed"}

\* C1: idempotence of a whole invocation.  Once a first invocation has completed,
\* a later invocation on the directory it left never starts rewriting a file, and
\* when it completes every header has exactly the content the first one left.
C1_SecondRunIsNoOp ==
  (run > 1 /\ snap # NoSnap) =>
     /\ ~Rewriting
     /\ status = "done" => (full = snap /\ \A f \in Files : ~temp[f].exists)

\* the second invocation has completed on headers the first one added an assumption to
C1_Witness ==
  /\ run = 2 /\ status = "done" /\ snap # NoSnap
  /\ \E f \in Files : Len(snap[f].data) > Len(input[f]) + Len(includeString)

\* C5: only I/O failures and XML parse failures terminate an invocation.
C5_OnlyIOAndParseFailuresAbort ==
  status = "aborted" => err \in {"ParseError", "OSError"}

\* C6: files are independent.  Two headers with the same content, processed by the
\* same invocation, have the same outcome: when the first was processed to its end
\* so is the second, and to the same content.
C6_FilesIndependent ==
  \A f, g \in Files :
    (run = 1 /\ f < g /\ input[f] = input[g] /\ cur >= g) =>
       IF cur > g THEN full[g] = full[f] ELSE err # "KeyError"

\* C7: after a completed invocation every header's first line is the sentinel, and
\* over any number of invocations no header gets a sentinel in front of a sentinel:
\* it begins with one sentinel line, or with as many as it began with at the start.
C7_OneSentinel ==
  /\ status = "done" =>
       \A f \in Files : full[f].exists /\ readline(full[f].data, 0) = includeString
  /\ \A f \in Files :
       LeadingSentinels(full[f].data) <=
         (IF LeadingSentinels(input[f]) > 1 THEN LeadingSentinels(input[f]) ELSE 1)

\* two invocations have completed on a header that did not begin with the sentinel
C7_Witness ==
  /\ run = 2 /\ status = "done" /\ snap # NoSnap
  /\ \E f \in Files :
       /\ input[f] # <<>> /\ LeadingSentinels(input[f]) = 0
       /\ LeadingSentinels(full[f].data) = 1

\* C8: a header whose first line is the sentinel is put back under its name with
\* the content it had, no line of it reaches the classifier, and allIntrinsics is
\* not changed, whatever the header declares.
C8_ProcessedFileUntouched ==
  [][(Running /\ pc = "opened" /\ readline(temp[cur].data, 0) = includeString) =>
        /\ allIntrinsics' = allIntrinsics
        /\ pc' \in {"opened", "for"}
        /\ pc' = "for" => (full'[cur] = File(orig[cur]) /\ ~temp'[cur].exists)]_vars

\* the first header is the sentinel followed by a macro of the mapped name _a, and
\* the driver has passed it
C8_Witness ==
  /\ run = 1 /\ Running /\ pc = "for" /\ cur = 2
  /\ input[1] = includeString \o LnMacroA
  /\ full[1] = File(input[1])
  /\ allIntrinsics = {"_a"}

AsideExists == pc \in {"opened", "main", "fwhile", "mwhile", "closed"}

\* C9: from the rename-aside of a header to the deletion of its copy, whether the
\* process runs or has stopped, the copy holds the complete content the header had;
\* and a copy disappears only by the deletion that follows the closing of the
\* finished output, or by being renamed back as the header.
C9_OriginalKeptAside ==
  /\ [](AsideExists => temp[cur] = File(orig[cur]))
  /\ [][\A f \in Files :
          (temp[f].exists /\ ~temp'[f].exists) =>
             \/ pc = "closed" /\ f = cur
             \/ pc = "opened" /\ f = cur /\ full'[f] = temp[f]]_vars

\* the process was killed while rewriting a header that was not empty
C9_Witness ==
  /\ status = "stopped" /\ pc \in {"main", "fwhile", "mwhile"}
  /\ orig[cur] # <<>>
  /\ temp[cur] = File(orig[cur])

\* C10: no file operation on a header precedes the successful load of the XML
\* description.
C10_LoadBeforeFiles ==
  touched => (pc # "start" /\ ParseSucceeds(xml))

\* the load failed, the invocation is over, and the headers are what they were
C10_Witness ==
  /\ status = "aborted" /\ err = "ParseError" /\ ~touched
  /\ \A f \in Files : full[f] = File(input[f]) /\ ~temp[f].exists
  /\ \E f \in Files : input[f] # <<>>


-----------------------------------------------------------------------------
(* Properties of the rewriting of one header (SpecOne) *)

\* the header under study has been processed to its end
Processed(f) == cur > f

\* the invocation is over for header f: processed to its end, or aborted in it
Ended(f) == cur > f \/ (cur = f /\ status = "aborted")

In1 == Lines(input[1])
Out1 == Lines(full[1].data)

\* line i of the input starts a logical line: the line before it does not end with
\* a continuation marker
StartsLogicalLine(i) == i = 1 \/ ~endswith(strip(In1[i - 1]), "BS")

\* line i starts a function declaration in the supported form: a marker line,
\* then a prototype line that starts with a name and `(`
FunctionAt(i) ==
  /\ i + 1 <= Len(In1)
  /\ StartsLogicalLine(i)
  /\ startswith(In1[i], "SI")
  /\ funcRegEx(strip(In1[i + 1])).matched

FunctionName(i) == funcRegEx(strip(In1[i + 1])).g1

\* line i starts the definition of a macro with a parameter list
MacroAt(i) ==
  /\ i <= Len(In1)
  /\ StartsLogicalLine(i)
  /\ startswith(In1[i], "DEF")
  /\ macroRegEx(strip(In1[i])).matched

MacroName(i) == macroRegEx(strip(In1[i])).g2

\* the lines from i on that end with `{`
Braces(i) == {j \in (i + 1)..Len(In1) : endswith(strip(In1[j]), "{")}

\* C2: for every function declaration of a mapped name in the supported form whose
\* body opens, the output holds the declaration's lines up to the one that ends
\* with `{`, followed at once by the assumption of the name's feature.
C2_AssumeAfterEveryMappedFunction ==
  (Processed(1) /\ readline(input[1], 0) # includeString) =>
    \A i \in 1..Len(In1) :
      (FunctionAt(i) /\ Get(intrinsicTech, FunctionName(i)) # None /\ Braces(i) # {}) =>
         Occurs(SubSeq(In1, i, Min(Braces(i)))
                  \o <<FunctionAssume(Get(intrinsicTech, FunctionName(i)))>>, Out1)

\* C3: every line of a function or macro declaration of an unmapped name is in the
\* output as it is in the input, and a header that names no mapped name at all
\* comes out as the sentinel followed by the input.
C3_UnmappedDeclarationsVerbatim ==
  (Processed(1) /\ readline(input[1], 0) # includeString) =>
    /\ \A i \in 1..Len(In1) :
         /\ (MacroAt(i) /\ Get(intrinsicTech, MacroName(i)) = None) =>
               Occurs(<<In1[i]>>, Out1)
         /\ (FunctionAt(i) /\ Get(intrinsicTech, FunctionName(i)) = None) =>
               Occurs(<<In1[i], In1[i + 1]>>, Out1)
    /\ (\A k \in 1..Len(input[1]) : input[1][k] \notin DOMAIN intrinsicTech) =>
         full[1].data = includeString \o input[1]

\* the last line of the macro that starts at line i: the first line after i that
\* does not end with a continuation marker
MacroLast(i) == Min({j \in (i + 1)..Len(In1) : ~endswith(strip(In1[j]), "BS")})

\* C4: a macro of a mapped name over N >= 2 lines, all but the last ending with a
\* continuation marker, comes out as its head, the assumption line, the rest of
\* its first line, its lines 2..N-1 as they are, and its last line with one `)`.
C4_MultiLineMacro ==
  (Ended(1) /\ readline(input[1], 0) # includeString) =>
    \A i \in 1..Len(In1) :
      (/\ MacroAt(i)
       /\ Get(intrinsicTech, MacroName(i)) # None
       /\ endswith(strip(In1[i]), "BS")
       /\ \E j \in (i + 1)..Len(In1) : ~endswith(strip(In1[j]), "BS")) =>
         LET m == macroRegEx(strip(In1[i]))
             s == strip(In1[i])
             head == m.g1 \o m.g2 \o m.g3
             body == SubSeq(s, Len(head) + 1, Len(s))
         IN  Occurs(Lines(head \o MacroAssume(Get(intrinsicTech, m.g2)) \o body \o <<"NL">>)
                      \o SubSeq(In1, i + 1, MacroLast(i) - 1)
                      \o <<rstrip(In1[MacroLast(i)]) \o <<")", "NL">> >>,
                    Out1)

\* the number of sentinel lines among the lines of a text
SentinelLines(data) ==
  Cardinality({i \in 1..Len(Lines(data)) : Lines(data)[i] = includeString})

\* C11 as stated: every sentinel line of a header that does not begin with one is
\* passed through unchanged, so the rewritten header holds the sentinel main()
\* writes and one sentinel line for each sentinel line of the input.
C11_SentinelPassedThrough ==
  (cur > 1 /\ readline(input[1], 0) # includeString) =>
     SentinelLines(full[1].data) = 1 + SentinelLines(input[1])

\* C11: the sentinel line is never classified as a function start or a macro
\* start.  Whenever the loop of main() holds the sentinel line, the line is Plain
\* and the step appends exactly that line to the output, changes no name set and
\* returns to the loop.
C11_SentinelIsPlain ==
  [][(Running /\ pc = "main" /\ line = includeString) =>
        /\ Classify(line) = "Plain"
        /\ full'[cur].data = full[cur].data \o includeString
        /\ allIntrinsics' = allIntrinsics
        /\ pc' = "main" /\ status' = status]_vars

\* a header with the sentinel as its second line, after a plain line, was rewritten
C11_Witness ==
  /\ cur > 1 /\ Len(Lines(input[1])) >= 2
  /\ Lines(input[1])[1] = LnPlain /\ Lines(input[1])[2] = includeString
  /\ full[1].data = includeString \o input[1]

\* C12: termination.  The processing of a finite header finishes: an invocation
\* that is still running can always take a step that changes the state, so neither
\* the scan of handleFunction for `{` nor the scan of handleMacro for the last line
\* of the macro goes on for ever.
C12_Terminates ==
  Running => ENABLED <<Step>>_vars

\* C13: a single-line macro `#define NAME(PARAMS) BODY` of a mapped, pending name.
\* The step that handles the line, which does not end with a backslash, appends
\* `#define NAME(PARAMS)`, the assumption with its continuations, the whole of
\* BODY and one `)` with a line break, and reads no line but the next one of the
\* loop of main().
C13_SingleLineMacro ==
  [][(/\ Running /\ pc = "main" /\ Classify(line) = "MacroStart"
      /\ macroRegEx(strip(line)).matched
      /\ Get(intrinsicTech, macroRegEx(strip(line)).g2) # None
      /\ Member(macroRegEx(strip(line)).g2, allIntrinsics)
      /\ ~endswith(strip(line), "BS")) =>
       LET s == strip(line)
           m == macroRegEx(s)
           head == m.g1 \o m.g2 \o m.g3
           body == SubSeq(s, Len(head) + 1, Len(s))
       IN  /\ full'[cur].data =
                full[cur].data \o head \o MacroAssume(Get(intrinsicTech, m.g2))
                               \o body \o <<")", "NL">>
           /\ line' = readline(Data, inPos)
           /\ inPos' = LineEnd(Data, inPos)
           /\ pc' = "main"]_vars

\* the loop of main() holds the first line of a multi-line macro of an unmapped name
UnmappedMultiLine ==
  /\ Running /\ pc = "main" /\ Classify(line) = "MacroStart"
  /\ macroRegEx(strip(line)).matched
  /\ Get(intrinsicTech, macroRegEx(strip(line)).g2) = None
  /\ endswith(strip(line), "BS")

\* the step appends the current line unchanged, reads the next line only and
\* returns to the loop of main() with the name set as it was
CopiesLine ==
  /\ full'[cur].data = full[cur].data \o line
  /\ line' = readline(Data, inPos)
  /\ inPos' = LineEnd(Data, inPos)
  /\ pc' = "main" /\ status' = status
  /\ allIntrinsics' = allIntrinsics

C15_PendingBookkeeping ==
  /\ [](pc # "start" =>
          /\ allIntrinsics \subseteq DOMAIN intrinsicTech
          /\ \A n \in DOMAIN intrinsicTech : (n \notin allIntrinsics) <=> (matchedIn[n] # 0))
  /\ [][(pc # "start" /\ run' = run) =>
          /\ allIntrinsics' \subseteq allIntrinsics
          /\ intrinsicTech' = intrinsicTech]_vars

\* an invocation has completed after matching a declaration of the key _a
C15_Witness ==
  /\ status = "done" /\ "_a" \in DOMAIN intrinsicTech
  /\ matchedIn["_a"] # 0 /\ "_a" \notin allIntrinsics

\* C16: the filter of the load.  After a load that returned, a name is a key of
\* intrinsicTech, and a member of allIntrinsics, exactly when some intrinsic
\* element of that name has a CPUID child, a tech without "512", "KNC" and "SVML"
\* and a first CPUID text other than MPX, XSAVE and FXSR; the value of the key is
\* the first CPUID text of such an element, replaced by its alias when the alias
\* table has one, so no value is an excluded identifier or a key of the alias table.
C16_LoaderFilter ==
  pc = "for" =>
    LET es == xml.elems
        Qualifies(i) ==
          /\ es[i].ids # <<>>
          /\ \A k \in 1..Len(es[i].tech) : es[i].tech[k] \notin {"512", "KNC", "SVML"}
          /\ es[i].ids[1] \notin {"MPX", "XSAVE", "FXSR"}
        Aliased(id) == IF id \in DOMAIN XMLToFeature THEN XMLToFeature[id] ELSE id
    IN  /\ allIntrinsics = DOMAIN intrinsicTech
        /\ \A n \in XmlNames :
             n \in DOMAIN intrinsicTech <=>
               \E i \in 1..Len(es) : es[i].name = n /\ Qualifies(i)
        /\ \A n \in DOMAIN intrinsicTech :
             /\ \E i \in 1..Len(es) :
                  /\ es[i].name = n /\ Qualifies(i)
                  /\ intrinsicTech[n] = Aliased(es[i].ids[1])
             /\ intrinsicTech[n] \notin {"MPX", "XSAVE", "FXSR"} \cup DOMAIN XMLToFeature

\* the load has kept the BMI1 element _a under its alias and skipped the SVML
\* element _b
C16_Witness ==
  /\ pc = "for"
  /\ xml.elems = << [name |-> "_a", tech |-> <<"BMI">>, ids |-> <<"BMI1">>],
                    [name |-> "_b", tech |-> <<"SVML">>, ids |-> <<"AVX">>] >>
  /\ DOMAIN intrinsicTech = {"_a"} /\ intrinsicTech["_a"] = "BMI"
  /\ allIntrinsics = {"_a"}

\* C17: an invocation that ended while it was rewriting a header is followed by
\* another one.  The content the header had before the interrupted invocation
\* renamed it aside is still there, under the header's name or under its .tmp
\* name, at every moment of the later invocation and after it.
C17_OriginalSurvivesRerun ==
  \A f \in Files :
    (unfinished[f].exists /\ unfinished[f].data # <<>>) =>
       (full[f] = unfinished[f] \/ temp[f] = unfinished[f])

\* a text without its blanks and line breaks
NonBlank(s) == SelectSeq(s, LAMBDA t : t \notin Whitespace)

\* b is a with tokens inserted: a is what is left of b when some tokens are removed
RECURSIVE InsertedInto(_, _)
InsertedInto(a, b) ==
  IF a = <<>> THEN TRUE
  ELSE IF b = <<>> THEN FALSE
  ELSE IF Head(a) = Head(b) THEN InsertedInto(Tail(a), Tail(b))
  ELSE InsertedInto(a, Tail(b))

\* C18: rewriting only inserts.  The rewritten form of a header that does not
\* begin with the sentinel is the sentinel followed by the text of the header in
\* its order with text inserted: blanks aside, no token of the input is missing
\* from the output or out of its place.
C18_InsertOnly ==
  (cur > 1 /\ readline(input[1], 0) # includeString) =>
     /\ readline(full[1].data, 0) = includeString
     /\ InsertedInto(NonBlank(input[1]),
                     NonBlank(SubSeq(full[1].data, Len(includeString) + 1,
                                     Len(full[1].data))))

====
